---- MODULE Spec2Model ----
(***************************************************************************)
(* A model of static/js/main.js, the client-side utility layer of the CMS. *)
(* The file is a set of independent helpers; each helper (or group of      *)
(* helpers sharing state) is modelled by its own group of variables, its   *)
(* own initial predicate and its own specification.  While one group runs, *)
(* the variables of the other groups are parked at a fixed value.          *)
(***************************************************************************)
EXTENDS Integers, Sequences, FiniteSets, TLC

VARIABLES
    \* updateTimestamps / formatTimeDifference
    fmtDiff,            \* diff = Date.now() - timestamp of the last update, or -1
    textContent,        \* element.textContent of the [data-timestamp] element
    \* initializeTheme / setTheme / toggleTheme
    localStorage,       \* value stored under the key 'cms-theme'
    dataTheme,          \* the root element's data-theme attribute
    themeOp,            \* the theme function that ran last
    themePrev,          \* <<stored value, attribute>> before that function ran
    \* showNotification and its callers
    notifications,      \* the alert elements created so far, in creation order
    timers,             \* pending setTimeout callbacks of showNotification
    notificationTimeout,\* the global handle (0 while undefined)
    timerSeq,           \* the last timer id the browser handed out
    cp,                 \* the copyToClipboard call in progress or last finished
    rq,                 \* the makeRequest call in progress or last finished
    \* debounce / throttle wrappers
    now,                \* the clock, in units of time
    immediate,          \* debounce's third argument
    timeout,            \* debounce's closure variable (0 while undefined or null)
    dbTimers,           \* pending setTimeout(later, wait) callbacks
    dbCalls,            \* the time of each call to the debounced wrapper
    dbInvoked,          \* each func.apply of the debounced func: time and args
    inThrottle,         \* throttle's closure variable (FALSE while undefined)
    thTimers,           \* pending setTimeout(() => inThrottle = false, limit)
    thCalls,            \* each call to the throttled wrapper: time, func invoked
    \* setupAutoRefresh / refreshElement
    refreshElements,    \* the data-auto-refresh attribute of each such element
    autoRefreshInterval,\* the global declared for the handle (0 while undefined)
    intervals,          \* the active setInterval timers
    setupCalls,         \* how many times setupAutoRefresh has run
    visible,            \* document.visibilityState === 'visible'
    opacity,            \* element.style.opacity of each element
    restores,           \* pending setTimeout(..., 500) callbacks per element
    \* validateForm / showFieldError / clearFieldError
    fieldParent,        \* the parent element of each required field
    fieldValue,         \* field.value, as a sequence of characters
    isInvalid,          \* whether the field carries the class 'is-invalid'
    feedback,           \* per parent: its 'invalid-feedback' children, in order
    formState           \* "edited", or validateForm's result "valid" / "invalid"

fmtVars == <<fmtDiff, textContent>>
themeVars == <<localStorage, dataTheme, themeOp, themePrev>>
toastVars == <<notifications, timers, notificationTimeout, timerSeq>>
notifyVars == <<toastVars, cp, rq>>
debounceVars == <<immediate, timeout, dbTimers, dbCalls, dbInvoked>>
throttleVars == <<inThrottle, thTimers, thCalls>>
timedVars == <<now, debounceVars, throttleVars>>
refreshVars == <<refreshElements, autoRefreshInterval, intervals, setupCalls,
                 visible, opacity, restores>>
formVars == <<fieldParent, fieldValue, isInvalid, feedback, formState>>
vars == <<fmtVars, themeVars, notifyVars, timedVars, refreshVars, formVars>>

exceptFmt == <<themeVars, notifyVars, timedVars, refreshVars, formVars>>
exceptTheme == <<fmtVars, notifyVars, timedVars, refreshVars, formVars>>
exceptNotify == <<fmtVars, themeVars, timedVars, refreshVars, formVars>>
exceptTimed == <<fmtVars, themeVars, notifyVars, refreshVars, formVars>>
exceptRefresh == <<fmtVars, themeVars, notifyVars, timedVars, formVars>>
exceptForm == <<fmtVars, themeVars, notifyVars, timedVars, refreshVars>>

\* What getItem / getAttribute return when nothing is set (JS null).
Null == "(null)"

-----------------------------------------------------------------------------
(* Parked values of each group.                                            *)

ParkFmt == fmtDiff = -1 /\ textContent = ""
ParkTheme ==
    /\ localStorage = Null
    /\ dataTheme = Null
    /\ themeOp = "none"
    /\ themePrev = <<Null, Null>>
CpIdle ==
    [pc |-> "idle", base |-> 0, primary |-> "none", execCommand |-> "none",
     fallback |-> FALSE]
RqIdle == [pc |-> "idle", base |-> 0, cause |-> "none", result |-> "none"]
ParkNotify ==
    /\ notifications = <<>>
    /\ timers = {}
    /\ notificationTimeout = 0
    /\ timerSeq = 0
    /\ cp = CpIdle
    /\ rq = RqIdle

ParkDebounce ==
    /\ immediate = FALSE
    /\ timeout = 0
    /\ dbTimers = {}
    /\ dbCalls = <<>>
    /\ dbInvoked = <<>>
ParkThrottle ==
    /\ inThrottle = FALSE
    /\ thTimers = {}
    /\ thCalls = <<>>
ParkTimed == now = 0 /\ ParkDebounce /\ ParkThrottle

ParkRefresh ==
    /\ refreshElements = <<>>
    /\ autoRefreshInterval = 0
    /\ intervals = {}
    /\ setupCalls = 0
    /\ visible = TRUE
    /\ opacity = <<>>
    /\ restores = <<>>
ParkForm ==
    /\ fieldParent = <<>>
    /\ fieldValue = <<>>
    /\ isInvalid = <<>>
    /\ feedback = <<>>
    /\ formState = "edited"

ParkExceptFmt == ParkTheme /\ ParkNotify /\ ParkTimed /\ ParkRefresh /\ ParkForm
ParkExceptTheme == ParkFmt /\ ParkNotify /\ ParkTimed /\ ParkRefresh /\ ParkForm
ParkExceptNotify == ParkFmt /\ ParkTheme /\ ParkTimed /\ ParkRefresh /\ ParkForm
ParkExceptTimed == ParkFmt /\ ParkTheme /\ ParkNotify /\ ParkRefresh /\ ParkForm
ParkExceptRefresh == ParkFmt /\ ParkTheme /\ ParkNotify /\ ParkTimed /\ ParkForm
ParkExceptForm == ParkFmt /\ ParkTheme /\ ParkNotify /\ ParkTimed /\ ParkRefresh

-----------------------------------------------------------------------------
(* formatTimeDifference                                                    *)

MaxMult == 3
MaxDelta == 2

\* Differences around every multiple of a unit that a boundary can sit on
\* (up to 24 days, which keeps the arithmetic inside the checker's integers;
\* the code's doubles are exact far beyond that).
DiffInputs ==
    { d \in UNION { { m * u + e : m \in { k \in (0..MaxMult) \cup {23, 24, 59, 60} :
                                              k <= 2073600000 \div u },
                                   e \in (-MaxDelta)..MaxDelta } :
                    u \in {1000, 60000, 3600000, 86400000} } : d >= 0 }

\* `${n} ${unit}${plural ? 's' : ''} ago`
AgoText(n, unit, plural) ==
    ToString(n) \o " " \o unit \o (IF plural THEN "s" ELSE "") \o " ago"

\* The hours line written with the days test (copy-paste slip).
formatTimeDifferenceHoursPlural(diff) ==
    LET seconds == diff \div 1000
        minutes == seconds \div 60
        hours == minutes \div 60
        days == hours \div 24
    IN  IF days > 0 THEN AgoText(days, "day", days # 1)
        ELSE IF hours > 0 THEN AgoText(hours, "hour", days # 1)
        ELSE IF minutes > 0 THEN AgoText(minutes, "minute", minutes # 1)
        ELSE "Just now"

formatTimeDifference(diff) ==
    LET seconds == diff \div 1000
        minutes == seconds \div 60
        hours == minutes \div 60
        days == hours \div 24
    IN  IF days > 0 THEN AgoText(days, "day", days # 1)
        ELSE IF hours > 0 THEN AgoText(hours, "hour", hours # 1)
        ELSE IF minutes > 0 THEN AgoText(minutes, "minute", minutes # 1)
        ELSE "Just now"

InitFmt == fmtDiff = -1 /\ textContent = "" /\ ParkExceptFmt

\* One run of updateTimestamps over a page with one [data-timestamp] element;
\* diff = Date.now() - parseInt(element.dataset.timestamp).
updateTimestamps ==
    /\ \E diff \in DiffInputs :
          /\ fmtDiff' = diff
          /\ textContent' = formatTimeDifference(diff)
    /\ UNCHANGED exceptFmt

NextFormat == updateTimestamps
SpecFormat == InitFmt /\ [][NextFormat]_vars

-----------------------------------------------------------------------------
(* Theme                                                                   *)

\* Theme tokens a caller of CMS.setTheme passes; "" is the falsy one.
Tokens == {"light", "dark", "sepia", ""}

\* JS truthiness of a stored string.
Truthy(s) == s # Null /\ s # ""

\* setTheme that forgets localStorage.setItem.
setThemeNoPersist(theme) ==
    /\ dataTheme' = theme
    /\ UNCHANGED localStorage

setTheme(theme) ==
    /\ dataTheme' = theme
    /\ localStorage' = theme

\* The page as loaded: a theme saved by an earlier visit (or none), and the
\* data-theme attribute the markup carries (or none).
InitTheme ==
    /\ localStorage \in Tokens \cup {Null}
    /\ dataTheme \in {Null, "light", "dark"}
    /\ themeOp = "none"
    /\ themePrev = <<Null, Null>>
    /\ ParkExceptTheme

initializeTheme ==
    /\ LET savedTheme == localStorage
       IN  IF Truthy(savedTheme) THEN setTheme(savedTheme)
           ELSE UNCHANGED <<localStorage, dataTheme>>
    /\ themeOp' = "initializeTheme"
    /\ themePrev' = <<localStorage, dataTheme>>
    /\ UNCHANGED exceptTheme

callSetTheme ==
    /\ \E theme \in Tokens : setTheme(theme)
    /\ themeOp' = "setTheme"
    /\ themePrev' = <<localStorage, dataTheme>>
    /\ UNCHANGED exceptTheme

toggleTheme ==
    /\ LET currentTheme == dataTheme
           newTheme == IF currentTheme = "dark" THEN "light" ELSE "dark"
       IN  setTheme(newTheme)
    /\ themeOp' = "toggleTheme"
    /\ themePrev' = <<localStorage, dataTheme>>
    /\ UNCHANGED exceptTheme

NextTheme == initializeTheme \/ callSetTheme \/ toggleTheme
SpecTheme == InitTheme /\ [][NextTheme]_vars

-----------------------------------------------------------------------------
(* Notifications, clipboard, AJAX helper                                   *)

MaxNotifications == 3

CopiedMsg == "Copied to clipboard!"
CopyFailedMsg == "Copy failed. Please copy manually."
RequestFailedMsg == "Request failed. Please try again."

\* showNotification that schedules its timer without clearing the old one.
showNotificationNoClear(message, type, duration) ==
    /\ notifications' = Append(notifications,
           [message |-> message, type |-> type, duration |-> duration,
            status |-> "shown"])
    /\ timers' = timers \cup
           {[id |-> timerSeq + 1, target |-> Len(notifications) + 1]}
    /\ notificationTimeout' = timerSeq + 1
    /\ timerSeq' = timerSeq + 1

\* clearTimeout of the handle when it is set (a handle whose timer already
\* ran clears nothing), a new alert appended to the body, a new timer whose
\* callback removes that alert.
showNotification(message, type, duration) ==
    /\ notifications' = Append(notifications,
           [message |-> message, type |-> type, duration |-> duration,
            status |-> "shown"])
    /\ timers' =
           (IF notificationTimeout # 0
            THEN { t \in timers : t.id # notificationTimeout }
            ELSE timers)
           \cup {[id |-> timerSeq + 1, target |-> Len(notifications) + 1]}
    /\ notificationTimeout' = timerSeq + 1
    /\ timerSeq' = timerSeq + 1

InitNotify ==
    /\ notifications = <<>>
    /\ timers = {}
    /\ notificationTimeout = 0
    /\ timerSeq = 0
    /\ cp = CpIdle
    /\ rq = RqIdle
    /\ ParkExceptNotify

\* Ctrl+/ : showKeyboardShortcuts calls showNotification directly.
showKeyboardShortcuts ==
    /\ Len(notifications) < MaxNotifications
    /\ showNotification("Keyboard Shortcuts", "info", 5000)
    /\ UNCHANGED <<cp, rq, exceptNotify>>

\* The callback of a pending auto-remove timer.
notificationTimerFires ==
    /\ \E t \in timers :
          /\ timers' = timers \ {t}
          /\ notifications' =
                 IF notifications[t.target].status = "shown"
                 THEN [notifications EXCEPT ![t.target].status = "removed"]
                 ELSE notifications
    /\ UNCHANGED <<notificationTimeout, timerSeq, cp, rq, exceptNotify>>

\* The user clicks the alert's btn-close (data-bs-dismiss="alert").
dismissAlert ==
    /\ \E i \in 1..Len(notifications) :
          /\ notifications[i].status = "shown"
          /\ notifications' = [notifications EXCEPT ![i].status = "closed"]
    /\ UNCHANGED <<timers, notificationTimeout, timerSeq, cp, rq, exceptNotify>>

\* What document.execCommand('copy') can do: copy, report failure, or throw.
ExecOutcomes == {"true", "false", "throws"}

\* The try/catch of the fallback: a toast by whether execCommand threw.
fallbackCopyTextToClipboard(exec) ==
    IF exec = "throws"
    THEN showNotification(CopyFailedMsg, "warning", 3000)
    ELSE showNotification(CopiedMsg, "success", 2000)

copyToClipboard ==
    /\ cp.pc \in {"idle", "done"}
    /\ Len(notifications) < MaxNotifications
    /\ \/ /\ cp' = [pc |-> "writing", base |-> Len(notifications),
                    primary |-> "pending", execCommand |-> "none",
                    fallback |-> FALSE]
          /\ UNCHANGED toastVars
       \/ \E exec \in ExecOutcomes :
             /\ fallbackCopyTextToClipboard(exec)
             /\ cp' = [pc |-> "done", base |-> Len(notifications),
                       primary |-> "unavailable", execCommand |-> exec,
                       fallback |-> TRUE]
    /\ UNCHANGED <<rq, exceptNotify>>

\* navigator.clipboard.writeText resolved: the then handler.
writeTextResolves ==
    /\ cp.pc = "writing"
    /\ Len(notifications) < MaxNotifications
    /\ showNotification(CopiedMsg, "success", 2000)
    /\ cp' = [cp EXCEPT !.pc = "done", !.primary = "resolved"]
    /\ UNCHANGED <<rq, exceptNotify>>

\* navigator.clipboard.writeText rejected: the catch handler.
writeTextRejects ==
    /\ cp.pc = "writing"
    /\ Len(notifications) < MaxNotifications
    /\ \E exec \in ExecOutcomes :
          /\ fallbackCopyTextToClipboard(exec)
          /\ cp' = [cp EXCEPT !.pc = "done", !.primary = "rejected",
                              !.execCommand = exec, !.fallback = TRUE]
    /\ UNCHANGED <<rq, exceptNotify>>

makeRequest ==
    /\ rq.pc \in {"idle", "resolved", "rejected"}
    /\ rq' = [pc |-> "fetching", base |-> Len(notifications),
              cause |-> "none", result |-> "none"]
    /\ UNCHANGED <<toastVars, cp, exceptNotify>>

\* fetch rejects (network failure): the then handler is skipped.
fetchRejects ==
    /\ rq.pc = "fetching"
    /\ rq' = [rq EXCEPT !.pc = "catching", !.cause = "network"]
    /\ UNCHANGED <<toastVars, cp, exceptNotify>>

\* fetch resolves with a response: the then handler throws when it is not ok
\* and otherwise returns response.json().
fetchResponds ==
    /\ rq.pc = "fetching"
    /\ \E ok \in BOOLEAN :
          rq' = IF ~ok THEN [rq EXCEPT !.pc = "catching", !.cause = "http"]
                ELSE [rq EXCEPT !.pc = "parsing"]
    /\ UNCHANGED <<toastVars, cp, exceptNotify>>

\* response.json() settles.
jsonSettles ==
    /\ rq.pc = "parsing"
    /\ \/ rq' = [rq EXCEPT !.pc = "resolved", !.result = "body"]
       \/ rq' = [rq EXCEPT !.pc = "catching", !.cause = "parse"]
    /\ UNCHANGED <<toastVars, cp, exceptNotify>>

\* A catch handler that shows the toast and forgets to rethrow.
catchHandlerSwallows ==
    /\ rq.pc = "catching"
    /\ Len(notifications) < MaxNotifications
    /\ showNotification(RequestFailedMsg, "danger", 3000)
    /\ rq' = [rq EXCEPT !.pc = "resolved", !.result = "undefined"]
    /\ UNCHANGED <<cp, exceptNotify>>

\* The catch handler: the toast, then the error thrown again.
catchHandler ==
    /\ rq.pc = "catching"
    /\ Len(notifications) < MaxNotifications
    /\ showNotification(RequestFailedMsg, "danger", 3000)
    /\ rq' = [rq EXCEPT !.pc = "rejected", !.result = "error"]
    /\ UNCHANGED <<cp, exceptNotify>>

NextNotify ==
    \/ showKeyboardShortcuts
    \/ notificationTimerFires
    \/ dismissAlert
    \/ copyToClipboard
    \/ writeTextResolves
    \/ writeTextRejects
    \/ makeRequest
    \/ fetchRejects
    \/ fetchResponds
    \/ jsonSettles
    \/ catchHandler
SpecNotify == InitNotify /\ [][NextNotify]_vars

-----------------------------------------------------------------------------
(* debounce and throttle                                                   *)

MaxTime == 6
MaxCalls == 4
\* The wait and limit arguments the wrappers are made with.
Wait == 2
Limit == 2

\* setTimeout(f, d) runs f once d has elapsed: a callback that is due runs
\* before the clock moves on and before a call arriving from then on.
Due(pending) == { t \in pending : t.due <= now }
NoneDue == Due(dbTimers) = {} /\ Due(thTimers) = {}

Tick ==
    /\ now < MaxTime
    /\ NoneDue
    /\ now' = now + 1
    /\ UNCHANGED <<debounceVars, throttleVars, exceptTimed>>

\* The wrapper without clearTimeout(timeout).
executedFunctionNoClear ==
    /\ Len(dbCalls) < MaxCalls
    /\ NoneDue
    /\ LET args == Len(dbCalls) + 1
           callNow == immediate /\ timeout = 0
       IN  /\ dbCalls' = Append(dbCalls, now)
           /\ dbTimers' = dbTimers \cup
                  {[id |-> args, due |-> now + Wait, args |-> args]}
           /\ timeout' = args
           /\ dbInvoked' = IF callNow
                           THEN Append(dbInvoked, [at |-> now, args |-> args])
                           ELSE dbInvoked
    /\ UNCHANGED <<now, immediate, throttleVars, exceptTimed>>

\* A call of the wrapper debounce returns.  The call's arguments are its
\* position in dbCalls; the timer it sets carries them (the closure later).
executedFunction ==
    /\ Len(dbCalls) < MaxCalls
    /\ NoneDue
    /\ LET args == Len(dbCalls) + 1
           callNow == immediate /\ timeout = 0
       IN  /\ dbCalls' = Append(dbCalls, now)
           /\ dbTimers' = { t \in dbTimers : t.id # timeout } \cup
                  {[id |-> args, due |-> now + Wait, args |-> args]}
           /\ timeout' = args
           /\ dbInvoked' = IF callNow
                           THEN Append(dbInvoked, [at |-> now, args |-> args])
                           ELSE dbInvoked
    /\ UNCHANGED <<now, immediate, throttleVars, exceptTimed>>

\* The timer callback later.
later ==
    /\ \E t \in Due(dbTimers) :
          /\ dbTimers' = dbTimers \ {t}
          /\ timeout' = 0
          /\ dbInvoked' = IF ~immediate
                          THEN Append(dbInvoked, [at |-> now, args |-> t.args])
                          ELSE dbInvoked
    /\ UNCHANGED <<now, immediate, dbCalls, throttleVars, exceptTimed>>

InitDebounce ==
    /\ now = 0
    /\ immediate \in BOOLEAN
    /\ timeout = 0
    /\ dbTimers = {}
    /\ dbCalls = <<>>
    /\ dbInvoked = <<>>
    /\ ParkThrottle
    /\ ParkExceptTimed

NextDebounce == Tick \/ executedFunction \/ later
SpecDebounce == InitDebounce /\ [][NextDebounce]_vars

\* The wrapper that never sets inThrottle.
throttledNoFlag ==
    /\ Len(thCalls) < MaxCalls
    /\ NoneDue
    /\ IF ~inThrottle
       THEN /\ thCalls' = Append(thCalls, [at |-> now, invoked |-> TRUE])
            /\ thTimers' = thTimers \cup
                   {[id |-> Len(thCalls) + 1, due |-> now + Limit]}
            /\ UNCHANGED inThrottle
       ELSE /\ thCalls' = Append(thCalls, [at |-> now, invoked |-> FALSE])
            /\ UNCHANGED <<inThrottle, thTimers>>
    /\ UNCHANGED <<now, debounceVars, exceptTimed>>

\* A call of the wrapper throttle returns.
throttled ==
    /\ Len(thCalls) < MaxCalls
    /\ NoneDue
    /\ IF ~inThrottle
       THEN /\ thCalls' = Append(thCalls, [at |-> now, invoked |-> TRUE])
            /\ inThrottle' = TRUE
            /\ thTimers' = thTimers \cup
                   {[id |-> Len(thCalls) + 1, due |-> now + Limit]}
       ELSE /\ thCalls' = Append(thCalls, [at |-> now, invoked |-> FALSE])
            /\ UNCHANGED <<inThrottle, thTimers>>
    /\ UNCHANGED <<now, debounceVars, exceptTimed>>

\* The timer callback () => inThrottle = false.
throttleWindowCloses ==
    /\ \E t \in Due(thTimers) :
          /\ thTimers' = thTimers \ {t}
          /\ inThrottle' = FALSE
    /\ UNCHANGED <<now, thCalls, debounceVars, exceptTimed>>

InitThrottle ==
    /\ now = 0
    /\ inThrottle = FALSE
    /\ thTimers = {}
    /\ thCalls = <<>>
    /\ ParkDebounce
    /\ ParkExceptTimed

NextThrottle == Tick \/ throttled \/ throttleWindowCloses
SpecThrottle == InitThrottle /\ [][NextThrottle]_vars

-----------------------------------------------------------------------------
(* setupAutoRefresh                                                        *)

MaxElements == 2
MaxSetupCalls == 2
MaxRestores == 1
DefaultRefreshMs == 30000

\* parseInt's result when the text does not start with a digit.
NaN == -1

Digits == <<"0", "1", "2", "3", "4", "5", "6", "7", "8", "9">>
IsDigit(c) == \E d \in 1..10 : Digits[d] = c
DigitValue(c) == (CHOOSE d \in 1..10 : Digits[d] = c) - 1

RECURSIVE ParseDigits(_, _)
ParseDigits(text, acc) ==
    IF text = <<>> \/ ~IsDigit(Head(text)) THEN acc
    ELSE ParseDigits(Tail(text), 10 * acc + DigitValue(Head(text)))

\* parseInt of an unsigned attribute text: the value of its leading digits.
parseInt(text) ==
    IF text = <<>> \/ ~IsDigit(Head(text)) THEN NaN ELSE ParseDigits(text, 0)

\* parseInt(element.dataset.autoRefresh) || 30000 (NaN and 0 are falsy).
RefreshInterval(text) ==
    LET n == parseInt(text)
    IN  IF n = NaN \/ n = 0 THEN DefaultRefreshMs ELSE n

\* Attribute texts a page carries: a number, nothing, a word, zero, and a
\* number with a unit.
AttrTexts == { <<"5", "0">>, <<>>, <<"o", "n">>, <<"0">>, <<"7", "s">> }

\* The timers one forEach pass creates, one per element; first is the last
\* timer id handed out before the pass.
NewIntervals(first) ==
    { [id |-> first + e, element |-> e,
       interval |-> RefreshInterval(refreshElements[e])] :
         e \in 1..Len(refreshElements) }

\* setupAutoRefresh keeping a single handle: the old interval cleared, the
\* new one stored.
setupAutoRefreshSingleHandle ==
    /\ setupCalls < MaxSetupCalls
    /\ LET created == NewIntervals(setupCalls * Len(refreshElements))
           last == { iv \in created : iv.element = Len(refreshElements) }
       IN  /\ intervals' = last
           /\ autoRefreshInterval' =
                  IF last = {} THEN autoRefreshInterval
                  ELSE (CHOOSE iv \in last : TRUE).id
    /\ setupCalls' = setupCalls + 1
    /\ UNCHANGED <<refreshElements, visible, opacity, restores, exceptRefresh>>

\* One run of setupAutoRefresh: the whole forEach.
setupAutoRefresh ==
    /\ setupCalls < MaxSetupCalls
    /\ intervals' = intervals \cup
           NewIntervals(setupCalls * Len(refreshElements))
    /\ setupCalls' = setupCalls + 1
    /\ UNCHANGED <<refreshElements, autoRefreshInterval, visible, opacity,
                   restores, exceptRefresh>>

\* An interval callback, with refreshElement when the page is visible.
intervalFires ==
    /\ \E iv \in intervals :
          IF visible
          THEN /\ restores[iv.element] < MaxRestores
               /\ opacity' = [opacity EXCEPT ![iv.element] = "0.7"]
               /\ restores' = [restores EXCEPT ![iv.element] = @ + 1]
          ELSE UNCHANGED <<opacity, restores>>
    /\ UNCHANGED <<refreshElements, autoRefreshInterval, intervals, setupCalls,
                   visible, exceptRefresh>>

\* refreshElement's timer callback, 500 ms later.
opacityRestored ==
    /\ \E e \in 1..Len(refreshElements) :
          /\ restores[e] > 0
          /\ opacity' = [opacity EXCEPT ![e] = "1"]
          /\ restores' = [restores EXCEPT ![e] = @ - 1]
    /\ UNCHANGED <<refreshElements, autoRefreshInterval, intervals, setupCalls,
                   visible, exceptRefresh>>

\* The tab is hidden or shown again.
visibilityChanges ==
    /\ visible' = ~visible
    /\ UNCHANGED <<refreshElements, autoRefreshInterval, intervals, setupCalls,
                   opacity, restores, exceptRefresh>>

InitRefresh ==
    /\ refreshElements \in UNION { [1..n -> AttrTexts] : n \in 0..MaxElements }
    /\ autoRefreshInterval = 0
    /\ intervals = {}
    /\ setupCalls = 0
    /\ visible = TRUE
    /\ opacity = [e \in 1..Len(refreshElements) |-> ""]
    /\ restores = [e \in 1..Len(refreshElements) |-> 0]
    /\ ParkExceptRefresh

NextRefresh ==
    setupAutoRefresh \/ intervalFires \/ opacityRestored \/ visibilityChanges
SpecRefresh == InitRefresh /\ [][NextRefresh]_vars

-----------------------------------------------------------------------------
(* validateForm                                                            *)

MaxFields == 3
MaxParents == 2

Fields == 1..MaxFields
Parents == 1..MaxParents

\* Values a user leaves in a field: nothing, blanks, text between blanks.
FieldValues == { <<>>, <<" ", " ">>, <<" ", "a", " ">> }

IsSpace(c) == c = " "

RECURSIVE TrimStart(_)
TrimStart(v) ==
    IF v # <<>> /\ IsSpace(Head(v)) THEN TrimStart(Tail(v)) ELSE v

RECURSIVE TrimEnd(_)
TrimEnd(v) ==
    IF v # <<>> /\ IsSpace(v[Len(v)]) THEN TrimEnd(SubSeq(v, 1, Len(v) - 1))
    ELSE v

\* String.prototype.trim
trim(v) == TrimEnd(TrimStart(v))

\* clearFieldError on the form state st = [invalid, feedback]: the class off
\* the field, and the first 'invalid-feedback' of the field's parent removed.
clearFieldError(field, st) ==
    LET p == fieldParent[field]
    IN  [invalid |-> [st.invalid EXCEPT ![field] = FALSE],
         feedback |-> [st.feedback EXCEPT
                          ![p] = IF @ # <<>> THEN Tail(@) ELSE @]]

\* showFieldError: clearFieldError, the class on the field, a new
\* 'invalid-feedback' appended to the field's parent (tagged with the field
\* it was made for).
showFieldError(field, st) ==
    LET p == fieldParent[field]
        c == clearFieldError(field, st)
    IN  [invalid |-> [c.invalid EXCEPT ![field] = TRUE],
         feedback |-> [c.feedback EXCEPT ![p] = Append(@, field)]]

\* The forEach of validateForm from field f on, in document order.
RECURSIVE ValidateFrom(_, _)
ValidateFrom(f, st) ==
    IF f > MaxFields THEN st
    ELSE IF trim(fieldValue[f]) = <<>>
         THEN ValidateFrom(f + 1, showFieldError(f, st))
         ELSE ValidateFrom(f + 1, clearFieldError(f, st))

\* One call of validateForm (the submit listener's call).
validateForm ==
    /\ LET st == ValidateFrom(1, [invalid |-> isInvalid, feedback |-> feedback])
       IN  /\ isInvalid' = st.invalid
           /\ feedback' = st.feedback
    /\ formState' =
           IF \E f \in Fields : trim(fieldValue[f]) = <<>>
           THEN "invalid" ELSE "valid"
    /\ UNCHANGED <<fieldParent, fieldValue, exceptForm>>

\* The user changes a field's value.
editField ==
    /\ \E f \in Fields, v \in FieldValues :
          /\ v # fieldValue[f]
          /\ fieldValue' = [fieldValue EXCEPT ![f] = v]
    /\ formState' = "edited"
    /\ UNCHANGED <<fieldParent, isInvalid, feedback, exceptForm>>

\* A form as loaded: any placement of the required fields under the parents,
\* any values, no error shown yet.
InitForm ==
    /\ fieldParent \in [Fields -> Parents]
    /\ fieldValue \in [Fields -> FieldValues]
    /\ isInvalid = [f \in Fields |-> FALSE]
    /\ feedback = [p \in Parents |-> <<>>]
    /\ formState = "edited"
    /\ ParkExceptForm

NextForm == validateForm \/ editField
SpecForm == InitForm /\ [][NextForm]_vars

-----------------------------------------------------------------------------
(* Claims                                                                  *)

\* The text the duration claim prescribes for diff, from the claim's own
\* divisions of the millisecond difference.
ClaimedText(diff) ==
    IF diff < 60 * 1000 THEN "Just now"
    ELSE IF diff < 3600 * 1000
         THEN AgoText(diff \div (60 * 1000), "minute", diff \div (60 * 1000) # 1)
    ELSE IF diff < 86400 * 1000
         THEN AgoText(diff \div (3600 * 1000), "hour", diff \div (3600 * 1000) # 1)
    ELSE AgoText(diff \div (86400 * 1000), "day", diff \div (86400 * 1000) # 1)

\* C8: for every non-negative millisecond difference, formatTimeDifference
\* gives 'Just now' under 60 s, then whole minutes, hours and days (rounded
\* down), with the unit singular exactly when the count is 1.
C8_FormatUnits == fmtDiff >= 0 => textContent = ClaimedText(fmtDiff)

\* The boundary 3600 s has been formatted, as one hour in the singular.
C8_Witness == fmtDiff = 3600000 /\ textContent = "1 hour ago"

\* C4 as stated: toggleTheme flips the stored theme (dark <-> light) and
\* leaves the stored value equal to the data-theme attribute.
C4_ToggleFlipsStored ==
    themeOp = "toggleTheme" =>
        /\ themePrev[1] = "dark" => localStorage = "light"
        /\ themePrev[1] = "light" => localStorage = "dark"
        /\ localStorage = dataTheme

\* C4 amended: toggleTheme decides from the data-theme attribute: it stores
\* 'light' when the attribute was 'dark' and 'dark' otherwise, and leaves
\* the stored value equal to the attribute; hence it flips the stored theme
\* whenever the stored value equalled the attribute before the call.
C4_ToggleFlipsAttribute ==
    themeOp = "toggleTheme" =>
        /\ localStorage = (IF themePrev[2] = "dark" THEN "light" ELSE "dark")
        /\ localStorage = dataTheme
        /\ themePrev[1] = themePrev[2] =>
              /\ themePrev[1] = "dark" => localStorage = "light"
              /\ themePrev[1] = "light" => localStorage = "dark"

\* toggleTheme has flipped a stored 'dark' that the attribute mirrored.
C4_Witness ==
    /\ themeOp = "toggleTheme"
    /\ themePrev = <<"dark", "dark">>
    /\ localStorage = "light"
    /\ dataTheme = "light"

\* Toasts with message m shown since position base of the notification list.
ToastsSince(base, m) ==
    { i \in (base + 1)..Len(notifications) : notifications[i].message = m }

\* C9: at most one auto-dismiss timer is pending at any time, and it is the
\* one of the latest showNotification call, held by notificationTimeout.
C9_OnePendingTimer ==
    /\ Cardinality(timers) <= 1
    /\ \A t \in timers :
          t.id = notificationTimeout /\ t.target = Len(notifications)

\* A second notification was shown while the first one's timer was pending:
\* the first is still on the page and only the second's timer is pending.
C9_Witness ==
    /\ Len(notifications) >= 2
    /\ notifications[1].status = "shown"
    /\ timers = {[id |-> notificationTimeout, target |-> Len(notifications)]}

\* C3: every notification is eventually removed from the page by its
\* auto-dismiss timer.  Only that timer's callback removes it, so as long as
\* a notification is on the page its timer must still be pending.
C3_EveryNotificationRemoved ==
    \A i \in 1..Len(notifications) :
        notifications[i].status = "shown" => \E t \in timers : t.target = i

\* C5: a finished copyToClipboard call has reported its real outcome: the
\* primary write succeeded, then one success toast and no fallback; the
\* primary write was unavailable or rejected, then the fallback ran; the
\* fallback too failed to copy, then a warning toast and no success toast.
C5_CopyReportsOutcome ==
    cp.pc = "done" =>
        /\ cp.primary = "resolved" =>
              /\ Cardinality(ToastsSince(cp.base, CopiedMsg)) = 1
              /\ ~cp.fallback
        /\ cp.primary \in {"unavailable", "rejected"} => cp.fallback
        /\ (cp.fallback /\ cp.execCommand \in {"false", "throws"}) =>
              /\ Cardinality(ToastsSince(cp.base, CopyFailedMsg)) = 1
              /\ ToastsSince(cp.base, CopiedMsg) = {}

\* C6: a failed request (fetch rejected, response not ok, body unparsable)
\* shows the 'Request failed' toast exactly once, not later than its promise
\* rejects, and never resolves; a successful one resolves with the parsed
\* body and shows no toast.
C6_RequestOutcome ==
    LET shown == Cardinality(ToastsSince(rq.base, RequestFailedMsg))
    IN  /\ rq.pc \in {"fetching", "parsing", "catching"} => shown = 0
        /\ rq.pc = "rejected" =>
              shown = 1 /\ rq.cause # "none" /\ rq.result = "error"
        /\ rq.pc = "resolved" =>
              shown = 0 /\ rq.cause = "none" /\ rq.result = "body"
        /\ rq.cause # "none" => rq.pc \in {"catching", "rejected"}

\* A response that was not ok has been turned into a rejection, the toast on
\* the page.
C6_Witness ==
    /\ rq.pc = "rejected"
    /\ rq.cause = "http"
    /\ ToastsSince(rq.base, RequestFailedMsg) # {}

\* The calls that end a burst: the last call so far, or a call followed by
\* the next one no sooner than Wait later.
BurstEnds ==
    { k \in 1..Len(dbCalls) :
         k = Len(dbCalls) \/ dbCalls[k + 1] - dbCalls[k] >= Wait }

\* C1: without immediate, func is invoked exactly once per burst of calls
\* spaced less than Wait apart: never for a call inside the burst, not
\* before Wait has elapsed since the burst's last call, and once by the time
\* the burst is over (a later call was made, or the clock is past Wait).
C1_DebounceOncePerBurst ==
    ~immediate =>
        \A k \in 1..Len(dbCalls) :
            LET invs == { i \in 1..Len(dbInvoked) : dbInvoked[i].args = k }
            IN  IF k \in BurstEnds
                THEN /\ Cardinality(invs) <= 1
                     /\ \A i \in invs : dbInvoked[i].at >= dbCalls[k] + Wait
                     /\ (k < Len(dbCalls) \/ now > dbCalls[k] + Wait)
                            => Cardinality(invs) = 1
                ELSE invs = {}

\* A burst of three calls at three instants, then one invocation, Wait
\* after the last of them and with its arguments.
C1_Witness ==
    /\ ~immediate
    /\ Len(dbCalls) = 3
    /\ dbCalls[1] < dbCalls[2]
    /\ dbCalls[2] < dbCalls[3]
    /\ BurstEnds = {3}
    /\ dbInvoked = <<[at |-> dbCalls[3] + Wait, args |-> 3]>>

\* C2: any two invocations of the throttled func are at least Limit apart,
\* and a call made less than Limit after an invocation does not invoke it.
C2_ThrottleOncePerWindow ==
    \A i, j \in 1..Len(thCalls) :
        (i < j /\ thCalls[i].invoked /\ thCalls[j].at - thCalls[i].at < Limit)
            => ~thCalls[j].invoked

\* A call invoked func, a call inside the window was dropped, and a call
\* after the window invoked func again.
C2_Witness ==
    /\ Len(thCalls) >= 3
    /\ thCalls[1].invoked
    /\ ~thCalls[2].invoked
    /\ thCalls[2].at > thCalls[1].at
    /\ thCalls[3].invoked

\* C7 as stated: at most one auto-refresh interval timer is active.
C7_SingleRefreshTimer == Cardinality(intervals) <= 1

\* C7 amended: autoRefreshInterval is never assigned and no interval timer
\* is ever cleared; each setupAutoRefresh call adds one interval timer per
\* [data-auto-refresh] element, so their number is calls times elements.
C7_OneTimerPerElementPerCall ==
    /\ autoRefreshInterval = 0
    /\ Cardinality(intervals) = setupCalls * Len(refreshElements)
    /\ \A e \in 1..Len(refreshElements) :
          Cardinality({ iv \in intervals : iv.element = e }) = setupCalls

\* setupAutoRefresh has run twice over a page with two elements: four
\* interval timers are active.
C7_Witness ==
    /\ setupCalls = 2
    /\ Len(refreshElements) = 2
    /\ Cardinality(intervals) = 4

\* C10: once validateForm has returned, a blank required field carries
\* 'is-invalid' and its parent holds an 'invalid-feedback'; a filled one
\* does not carry 'is-invalid'; a parent with no blank required field holds
\* no 'invalid-feedback'.
C10_ValidationMarksFields ==
    formState # "edited" =>
        /\ \A f \in Fields :
              IF trim(fieldValue[f]) = <<>>
              THEN isInvalid[f] /\ feedback[fieldParent[f]] # <<>>
              ELSE ~isInvalid[f]
        /\ \A p \in Parents :
              (\A f \in Fields :
                  fieldParent[f] = p => trim(fieldValue[f]) # <<>>)
                  => feedback[p] = <<>>

====
